---- MODULE Spec2Model ----
(***************************************************************************)
(* Crypto Swing Tracker: the swing segmentation loop of performAnalysis    *)
(* and the per-card research orchestration of the App component.          *)
(*                                                                         *)
(* Conventions                                                             *)
(*  - A date string 'YYYY-MM-DD' of the analysed year is the number MMDD   *)
(*    (101 is January 1st, 201 is February 1st); 0 is a missing date.      *)
(*    String order (localeCompare) of ISO dates is the order of MMDD.      *)
(*  - Prices are positive integers; 0 is a missing (falsy) price.          *)
(*  - A JavaScript number that may be NaN is a record [nan, v].            *)
(*  - percentageChange is the exact fraction <<numerator, denominator>>.   *)
(*  - Sequences are 1-based: JavaScript index k is index k + 1 here.       *)
(*  - ticker and year are carried unchanged from the inputs to the result  *)
(*    and are left out; the PDF export is not modelled.                    *)
(***************************************************************************)
EXTENDS Integers, Sequences, FiniteSets, TLC

VARIABLES
    percentage,           \* useState percentage (the threshold input)
    loading,              \* useState loading
    activeResearchCount,  \* useState activeResearchCount
    error,                \* useState error: NULL or a message
    result,               \* useState result: NULL or an AnalysisResult
    call,                 \* the performAnalysis invocation awaiting a provider, or NULL
    requests,             \* fetchSingleMovementContext promises not yet settled
    issued,               \* history: indices requested by the latest run, in order
    staleSettled          \* history: a request of an earlier run settled during the latest run

vars == <<percentage, loading, activeResearchCount, error, result, call, requests,
          issued, staleSettled>>

NULL == [null |-> TRUE]

\* new Error(message), as setError stores its message
Error(message) == [message |-> message]

\* ------------------------------------------------------------------ bounds

\* longest series the segmentation specification enumerates
MaxLen == 4
\* how many runs' requests may be in flight together (the latest run's included)
MaxGenerations == 2

\* the ticker and year inputs as the App starts with them (toUpperCase applied)
Ticker == "BTC"
Year == 2024

\* ------------------------------------------------------------ JavaScript numbers

Num(n) == [nan |-> FALSE, v |-> n]
NaN == [nan |-> TRUE, v |-> 0]

Abs(n) == IF n < 0 THEN 0 - n ELSE n

Min(a, b) == IF a < b THEN a ELSE b

\* Math.max(2, percentage): NaN if the argument is NaN
ValidatedPercentage(p) == IF p.nan THEN NaN ELSE IF p.v < 2 THEN Num(2) ELSE p

\* ------------------------------------------------------------------ dates

MonthOf(date) == date \div 100
DayOf(date) == date % 100

\* days before the first of each month (a non-leap year)
DaysBeforeMonth(m) ==
    CASE m = 1 -> 0 [] m = 2 -> 31 [] m = 3 -> 59 [] m = 4 -> 90
      [] m = 5 -> 120 [] m = 6 -> 151 [] m = 7 -> 181 [] m = 8 -> 212
      [] m = 9 -> 243 [] m = 10 -> 273 [] m = 11 -> 304 [] m = 12 -> 334

\* 1000 * 60 * 60 * 24 milliseconds, counted in seconds here (32-bit integers)
TicksPerDay == 60 * 60 * 24

\* new Date('YYYY-MM-DD').getTime(): UTC midnight of that day, from January 1st
GetTime(date) == (DaysBeforeMonth(MonthOf(date)) + DayOf(date) - 1) * TicksPerDay

\* Math.ceil(a / b) for a >= 0, b > 0
CeilDiv(a, b) == (a + b - 1) \div b

\* (mutant) the difference of the days of the month
CalendarDaysOfMonth(startDate, endDate) == Abs(DayOf(endDate) - DayOf(startDate))

\* Math.ceil(Math.abs(end.getTime() - start.getTime()) / (1000 * 60 * 60 * 24))
CalendarDays(startDate, endDate) ==
    CeilDiv(Abs(GetTime(endDate) - GetTime(startDate)), TicksPerDay)

\* ------------------------------------------------------------ fetchTickerHistory

\* item.date, item.price as a condition: false when the field is absent, when the
\* date is the empty string (written 0) and when the price is the number 0
Truthy(item, field) == field \in DOMAIN item /\ item[field] # 0

\* .filter(item => item.date && item.price)
RECURSIVE FilterComplete(_)
FilterComplete(raw) ==
    IF raw = <<>> THEN <<>>
    ELSE LET rest == FilterComplete(Tail(raw))
         IN  IF Truthy(Head(raw), "date") /\ Truthy(Head(raw), "price")
             THEN <<Head(raw)>> \o rest ELSE rest

\* insert p after every element whose date is not greater (stable order)
RECURSIVE InsertByDate(_, _)
InsertByDate(p, sorted) ==
    IF sorted = <<>> THEN <<p>>
    ELSE IF Head(sorted).date <= p.date
         THEN <<Head(sorted)>> \o InsertByDate(p, Tail(sorted))
         ELSE <<p>> \o sorted

\* .sort((a, b) => a.date.localeCompare(b.date)), a stable sort
RECURSIVE SortByDate(_)
SortByDate(s) ==
    IF s = <<>> THEN <<>>
    ELSE InsertByDate(s[Len(s)], SortByDate(SubSeq(s, 1, Len(s) - 1)))

FetchTickerHistory(raw) == SortByDate(FilterComplete(raw))

\* ------------------------------------------------------------ segmentation

\* (mutant) the comparison is > instead of >=
ReachesTargetStrict(basePrice, currentPrice, validated) ==
    /\ ~validated.nan
    /\ Abs(currentPrice - basePrice) * 100 > validated.v * basePrice

\* (mutant) the change in percent compared with the target fraction
ReachesTargetUnits(basePrice, currentPrice, validated) ==
    /\ ~validated.nan
    /\ Abs(currentPrice - basePrice) * 100 * 100 >= validated.v * basePrice

\* Math.abs(change) >= target, change = (currentPrice - basePrice) / basePrice,
\* target = validatedPercentage / 100; a comparison with NaN is false
ReachesTarget(basePrice, currentPrice, validated) ==
    /\ ~validated.nan
    /\ Abs(currentPrice - basePrice) * 100 >= validated.v * basePrice

\* daysTaken of the batched App: i - baseIndex
IndexDistance(data, baseIndex, i) == i - baseIndex

\* daysTaken of the per-card App: the calendar days between the two dates
DateDistance(data, baseIndex, i) == CalendarDays(data[baseIndex].date, data[i].date)

\* (mutant) the swing starts at the sample before i instead of the base
MovementFromPrevious(data, baseIndex, i, daysTaken) ==
    [startDate |-> data[i - 1].date,
     endDate |-> data[i].date,
     startPrice |-> data[i - 1].price,
     endPrice |-> data[i].price,
     type |-> IF data[i].price > data[baseIndex].price THEN "UP" ELSE "DOWN",
     percentageChange |->
        <<(data[i].price - data[baseIndex].price) * 100, data[baseIndex].price>>,
     daysTaken |-> daysTaken]

\* (mutant) the change is taken relative to the end price
MovementRelativeToEnd(data, baseIndex, i, daysTaken) ==
    [startDate |-> data[baseIndex].date,
     endDate |-> data[i].date,
     startPrice |-> data[baseIndex].price,
     endPrice |-> data[i].price,
     type |-> IF data[i].price > data[baseIndex].price THEN "UP" ELSE "DOWN",
     percentageChange |->
        <<(data[i].price - data[baseIndex].price) * 100, data[i].price>>,
     daysTaken |-> daysTaken]

\* the object pushed for the swing from data[baseIndex] to data[i]
Movement(data, baseIndex, i, daysTaken) ==
    [startDate |-> data[baseIndex].date,
     endDate |-> data[i].date,
     startPrice |-> data[baseIndex].price,
     endPrice |-> data[i].price,
     type |-> IF data[i].price > data[baseIndex].price THEN "UP" ELSE "DOWN",
     percentageChange |->
        <<(data[i].price - data[baseIndex].price) * 100, data[baseIndex].price>>,
     daysTaken |-> daysTaken]

\* daysTaken as the App variant computes it
DaysTaken(variant, data, baseIndex, i) ==
    IF variant = "batched" THEN IndexDistance(data, baseIndex, i)
    ELSE DateDistance(data, baseIndex, i)

\* the loop for (let i = 1; i < data.length; i++) from index i on; the loops of
\* the two App variants differ in daysTaken alone
RECURSIVE SegmentFrom(_, _, _, _, _, _)
SegmentFrom(variant, data, validated, i, baseIndex, movements) ==
    IF i > Len(data) THEN movements
    ELSE IF ReachesTarget(data[baseIndex].price, data[i].price, validated)
         THEN SegmentFrom(variant, data, validated, i + 1, i,
                          Append(movements,
                                 Movement(data, baseIndex, i,
                                          DaysTaken(variant, data, baseIndex, i))))
         ELSE SegmentFrom(variant, data, validated, i + 1, baseIndex, movements)

\* (mutant) the loop starts with the second sample as its base
SegmentFromSecond(data, validated) == SegmentFrom("perCard", data, validated, 3, 2, <<>>)

\* the segmentation of the per-card App
Segment(data, validated) == SegmentFrom("perCard", data, validated, 2, 1, <<>>)

\* the segmentation of the batched App
SegmentBatched(data, validated) == SegmentFrom("batched", data, validated, 2, 1, <<>>)

\* ------------------------------------------------------------ explanation provider

NoContext == "(no context)"
ResearchFailed == "Research failed for this period."
NoEventData == "No specific event data identified."

\* what the external research provider does with one request
ProviderReplies == {"text", "error", "empty"}

\* a provider text about the swing it was asked about
Explanation(move) ==
    "Why " \o move.type \o " " \o ToString(move.startDate) \o "-" \o ToString(move.endDate)

\* fetchSingleMovementContext(ticker, move): the provider's text, or a fixed
\* fallback string when the provider fails or answers nothing; it never rejects
FetchSingleMovementContext(move, reply) ==
    CASE reply = "text" -> Explanation(move)
      [] reply = "error" -> ResearchFailed
      [] reply = "empty" -> NoEventData

\* ------------------------------------------------------------ per-card App

\* the research cap of movesToResearch = initialMovements.slice(0, 15)
ResearchCap == 15

\* an array slot that was never assigned
Hole == [hole |-> TRUE]

\* (mutant) a pushed movement already carries a context
NewMovementWithContext(m) ==
    [startDate |-> m.startDate, endDate |-> m.endDate, startPrice |-> m.startPrice,
     endPrice |-> m.endPrice, type |-> m.type, percentageChange |-> m.percentageChange,
     daysTaken |-> m.daysTaken, context |-> ResearchFailed]

\* the object of initialMovements.push({...}): no context yet
NewMovement(m) ==
    [startDate |-> m.startDate, endDate |-> m.endDate, startPrice |-> m.startPrice,
     endPrice |-> m.endPrice, type |-> m.type, percentageChange |-> m.percentageChange,
     daysTaken |-> m.daysTaken, context |-> NoContext]

\* (mutant) every movement is researched
MovesToResearchAll(movements) == movements

\* initialMovements.slice(0, 15)
MovesToResearch(movements) == SubSeq(movements, 1, Min(ResearchCap, Len(movements)))

\* (mutant) the counter starts at the number of all movements
ResearchCountUncapped(initialMovements) == Len(initialMovements)

\* setActiveResearchCount(movesToResearch.length)
ResearchCount(initialMovements) == Len(MovesToResearch(initialMovements))

\* (mutant) the card is replaced by the bare context
SpreadContextOnly(m, context) == [context |-> context]

\* { ...newMovements[index], context }
SpreadContext(m, context) ==
    IF "startDate" \in DOMAIN m THEN [m EXCEPT !.context = context]
    ELSE [context |-> context]

\* (mutant) the context is appended instead of written at its index
AssignAppend(movements, index, context) == Append(movements, [context |-> context])

\* (mutant) the context is written to every card
AssignAll(movements, index, context) ==
    [k \in 1..Len(movements) |-> SpreadContext(movements[k], context)]

\* newMovements = [...prev.movements]; newMovements[index] = {...}: an index past
\* the end grows the array and leaves holes before it
AssignAt(movements, index, context) ==
    IF index <= Len(movements)
    THEN [movements EXCEPT ![index] = SpreadContext(@, context)]
    ELSE [k \in 1..index |->
            IF k <= Len(movements) THEN movements[k]
            ELSE IF k = index THEN [context |-> context] ELSE Hole]

\* setResult(prev => { if (!prev) return prev; ... })
MergeContext(prev, index, context) ==
    IF prev = NULL THEN prev
    ELSE [prev EXCEPT !.movements = AssignAt(prev.movements, index, context)]

\* (mutant) the decrement without its floor
DecrementNoFloor(prev) == prev - 1

\* setActiveResearchCount(prev => Math.max(0, prev - 1))
Decrement(prev) == IF prev - 1 < 0 THEN 0 ELSE prev - 1

\* the requests performAnalysis starts for movesToResearch
Spawn(moves) == {[index |-> k, move |-> moves[k], age |-> 0] : k \in 1..Len(moves)}

RECURSIVE Indices(_)
Indices(n) == IF n = 0 THEN <<>> ELSE Append(Indices(n - 1), n)

Init ==
    /\ percentage = Num(5)
    /\ loading = FALSE
    /\ activeResearchCount = 0
    /\ error = NULL
    /\ result = NULL
    /\ call = NULL
    /\ requests = {}
    /\ issued = <<>>
    /\ staleSettled = FALSE

\* onChange of the threshold input: setPercentage(parseFloat(e.target.value))
SetPercentage(p) ==
    /\ percentage' = p
    /\ UNCHANGED <<loading, activeResearchCount, error, result, call, requests,
                   issued, staleSettled>>

\* (mutant) performAnalysis without setResult(null)
PerformAnalysisKeepsResult ==
    /\ ~loading
    /\ \A r \in requests : r.age + 1 < MaxGenerations
    /\ percentage' = ValidatedPercentage(percentage)
    /\ loading' = TRUE
    /\ activeResearchCount' = 0
    /\ error' = NULL
    /\ call' = [stage |-> "history", validatedPercentage |-> ValidatedPercentage(percentage)]
    /\ requests' = {[r EXCEPT !.age = @ + 1] : r \in requests}
    /\ issued' = <<>>
    /\ staleSettled' = FALSE
    /\ UNCHANGED result

\* the Analyze button (disabled while loading): performAnalysis up to its first
\* await; the requests still in flight belong to an earlier run from now on
\* (MaxGenerations bounds how many runs' requests the model keeps apart)
PerformAnalysis ==
    /\ ~loading
    /\ \A r \in requests : r.age + 1 < MaxGenerations
    /\ percentage' = ValidatedPercentage(percentage)
    /\ loading' = TRUE
    /\ activeResearchCount' = 0
    /\ error' = NULL
    /\ result' = NULL
    /\ call' = [stage |-> "history", validatedPercentage |-> ValidatedPercentage(percentage)]
    /\ requests' = {[r EXCEPT !.age = @ + 1] : r \in requests}
    /\ issued' = <<>>
    /\ staleSettled' = FALSE

\* (mutant) only an empty series counts as insufficient
TooShortOnlyEmpty(data) == Len(data) < 1

\* if (!data || data.length < 2) throw new Error("Insufficient data found ...")
TooShort(data) == Len(data) < 2

\* fetchTickerHistory resolves with at least two samples: segmentation, the
\* initial result, and one research request per card up to the cap
HistoryResolved(raw) ==
    /\ call # NULL
    /\ call.stage = "history"
    /\ LET data == FetchTickerHistory(raw)
           initialMovements == Segment(data, call.validatedPercentage)
           movesToResearch == MovesToResearch(initialMovements)
       IN  /\ ~TooShort(data)
           /\ result' = [ticker |-> Ticker, year |-> Year,
                         targetPercentage |-> call.validatedPercentage,
                         data |-> data,
                         movements |-> [k \in 1..Len(initialMovements) |->
                                           NewMovement(initialMovements[k])]]
           /\ loading' = FALSE
           /\ IF Len(initialMovements) > 0
              THEN /\ activeResearchCount' = ResearchCount(initialMovements)
                   /\ requests' = requests \cup Spawn(movesToResearch)
                   /\ issued' = Indices(Len(movesToResearch))
              ELSE UNCHANGED <<activeResearchCount, requests, issued>>
    /\ call' = NULL
    /\ UNCHANGED <<percentage, error, staleSettled>>

\* (mutant) the catch block without setLoading(false)
InsufficientDataKeepsLoading(raw) ==
    /\ call # NULL
    /\ call.stage = "history"
    /\ TooShort(FetchTickerHistory(raw))
    /\ error' = Error("Insufficient data found")
    /\ call' = NULL
    /\ UNCHANGED <<percentage, loading, activeResearchCount, result, requests, issued,
                   staleSettled>>

\* fetchTickerHistory resolves with fewer than two samples: the throw and the catch
InsufficientData(raw) ==
    /\ call # NULL
    /\ call.stage = "history"
    /\ TooShort(FetchTickerHistory(raw))
    /\ error' = Error("Insufficient data found")
    /\ loading' = FALSE
    /\ call' = NULL
    /\ UNCHANGED <<percentage, activeResearchCount, result, requests, issued, staleSettled>>

\* fetchTickerHistory rejects (request failure, unparsable or non-array output)
HistoryRejected ==
    /\ call # NULL
    /\ call.stage = "history"
    /\ error' = Error("Failed to fetch accurate historical data")
    /\ loading' = FALSE
    /\ call' = NULL
    /\ UNCHANGED <<percentage, activeResearchCount, result, requests, issued, staleSettled>>

\* one research promise settles: .then merges the context and .finally decrements
\* the counter; the callbacks of one promise run back to back, and .catch has
\* nothing to catch from a function that resolves to a fallback on failure
ResearchSettled(r, reply) ==
    /\ r \in requests
    /\ result' = MergeContext(result, r.index, FetchSingleMovementContext(r.move, reply))
    /\ activeResearchCount' = Decrement(activeResearchCount)
    /\ requests' = requests \ {r}
    /\ staleSettled' = (staleSettled \/ r.age > 0)
    /\ UNCHANGED <<percentage, loading, error, call, issued>>

\* ------------------------------------------------------------ inputs

Point(date, price) == [date |-> date, price |-> price]

PercentInputs == {Num(1), Num(3), NaN}

RawPool ==
    { <<Point(101, 100), Point(110, 103), Point(201, 80)>>,
      <<Point(105, 110), Point(0, 95), Point(101, 100), Point(102, 0), Point(110, 100)>>,
      <<Point(101, 100), Point(102, 101)>>,
      <<Point(101, 100), Point(0, 120)>> }

Next ==
    \/ \E p \in PercentInputs : SetPercentage(p)
    \/ PerformAnalysis
    \/ \E raw \in RawPool : HistoryResolved(raw)
    \/ \E raw \in RawPool : InsufficientData(raw)
    \/ HistoryRejected
    \/ \E r \in requests, reply \in ProviderReplies : ResearchSettled(r, reply)

Spec == Init /\ [][Next]_vars

\* the same machine under weak fairness of the provider's settlements
FairSpec ==
    Spec /\ WF_vars(\E r \in requests, reply \in ProviderReplies : ResearchSettled(r, reply))

\* the price lookup of the pending run settles, one way or another
LookupSettles ==
    \/ \E raw \in RawPool : HistoryResolved(raw)
    \/ \E raw \in RawPool : InsufficientData(raw)
    \/ HistoryRejected

\* the same machine under weak fairness of the price lookup alone: the research
\* requests may stay unsettled for ever
LookupFairSpec == Spec /\ WF_vars(LookupSettles)

\* ------------------------------------------------------------ rejecting provider

\* (mutant) the rejection reaches the catch block of performAnalysis
ResearchRejectedIntoCatch(r) ==
    /\ r \in requests
    /\ error' = Error("An unexpected error occurred.")
    /\ loading' = FALSE
    /\ activeResearchCount' = Decrement(activeResearchCount)
    /\ requests' = requests \ {r}
    /\ staleSettled' = (staleSettled \/ r.age > 0)
    /\ UNCHANGED <<percentage, result, call, issued>>

\* one research promise rejects: .then is skipped, .catch logs the error and
\* .finally decrements the counter
ResearchRejected(r) ==
    /\ r \in requests
    /\ activeResearchCount' = Decrement(activeResearchCount)
    /\ requests' = requests \ {r}
    /\ staleSettled' = (staleSettled \/ r.age > 0)
    /\ UNCHANGED <<percentage, loading, error, result, call, issued>>

\* the per-card App with a provider whose promises may also reject
NextRejecting ==
    \/ \E p \in PercentInputs : SetPercentage(p)
    \/ PerformAnalysis
    \/ \E raw \in RawPool : HistoryResolved(raw)
    \/ \E raw \in RawPool : InsufficientData(raw)
    \/ HistoryRejected
    \/ \E r \in requests, reply \in ProviderReplies : ResearchSettled(r, reply)
    \/ \E r \in requests : ResearchRejected(r)

SpecRejecting == Init /\ [][NextRejecting]_vars

\* ------------------------------------------------------------ segmentation inputs

SegDates == {101, 110, 201}
SegPrices == {80, 100, 103}
SegPercents == {Num(1), Num(3), Num(5), NaN}

SegPoints == {Point(d, p) : d \in SegDates, p \in SegPrices}

\* every date-sorted series of 2..MaxLen samples
SegSeries ==
    {s \in UNION {[1..n -> SegPoints] : n \in 2..MaxLen} :
        \A k \in 1..(Len(s) - 1) : s[k].date <= s[k + 1].date}

\* Analyze was clicked with any threshold and the price lookup is pending
InitSeg ==
    \E p \in SegPercents :
        /\ percentage = ValidatedPercentage(p)
        /\ loading = TRUE
        /\ activeResearchCount = 0
        /\ error = NULL
        /\ result = NULL
        /\ call = [stage |-> "history", validatedPercentage |-> ValidatedPercentage(p)]
        /\ requests = {}
        /\ issued = <<>>
        /\ staleSettled = FALSE

NextSeg == \E raw \in SegSeries : HistoryResolved(raw)

SpecSeg == InitSeg /\ [][NextSeg]_vars

\* ------------------------------------------------------------ price lookup inputs

\* longest provider reply the lookup specification enumerates
MaxRaw == 3

\* what the provider may put into its array: samples with both fields, without a
\* date, without a price, and with the price 0
RawSamples ==
    {Point(d, p) : d \in {101, 102}, p \in {0, 100}}
        \cup {[date |-> d] : d \in {101, 102}}
        \cup {[price |-> p] : p \in {0, 100}}

\* every reply of up to MaxRaw samples, in any order
RawReplies == UNION {[1..n -> RawSamples] : n \in 0..MaxRaw}

\* fetchTickerHistory holds the parsed array of the provider's reply
InitFetch ==
    \E raw \in RawReplies :
        /\ percentage = Num(5)
        /\ loading = TRUE
        /\ activeResearchCount = 0
        /\ error = NULL
        /\ result = NULL
        /\ call = [stage |-> "parsed", raw |-> raw]
        /\ requests = {}
        /\ issued = <<>>
        /\ staleSettled = FALSE

\* return data.filter(...).sort(...)
FetchReturns ==
    /\ call # NULL
    /\ call.stage = "parsed"
    /\ call' = [stage |-> "returned", raw |-> call.raw, data |-> FetchTickerHistory(call.raw)]
    /\ UNCHANGED <<percentage, loading, activeResearchCount, error, result, requests,
                   issued, staleSettled>>

NextFetch == FetchReturns

SpecFetch == InitFetch /\ [][NextFetch]_vars

\* ------------------------------------------------------------ runs past the cap

\* cards 1..MaxFailingCards may get any provider reply, later cards get a text
MaxFailingCards == 1

\* a series of n samples that alternates between 100 and 110, one sample a day
ZigZag(n) == [k \in 1..n |-> Point(100 + k, IF k % 2 = 1 THEN 100 ELSE 110)]

CapPool ==
    { ZigZag(ResearchCap + 2),
      ZigZag(ResearchCap + 1),
      <<Point(101, 100), Point(110, 103), Point(201, 80)>> }

CapReplies(r) == IF r.index <= MaxFailingCards THEN ProviderReplies ELSE {"text"}

\* one run after the other: Analyze is clicked again once every request settled
NextCap ==
    \/ requests = {} /\ PerformAnalysis
    \/ \E raw \in CapPool : HistoryResolved(raw)
    \/ \E r \in requests : \E reply \in CapReplies(r) : ResearchSettled(r, reply)

SpecCap == Init /\ [][NextCap]_vars

\* ------------------------------------------------------------ batched App

NoEventsFound == "No specific event data found for this period."
NoEventsIdentified == "No specific events identified."
LimitedNote == "Detailed context limited to first 15 swings."

\* what the provider does with the one batched request
BatchReplies == {"aligned", "short", "long", "unparsable"}

\* fetchSwingsContext(ticker, movements) when its request resolves: the parsed
\* array, or one fallback string per movement when the text does not parse
FetchSwingsContext(movements, reply) ==
    CASE reply = "aligned" -> [k \in 1..Len(movements) |-> Explanation(movements[k])]
      [] reply = "short" -> [k \in 1..(Len(movements) - 1) |-> Explanation(movements[k])]
      [] reply = "long" ->
            [k \in 1..(Len(movements) + 1) |->
                IF k <= Len(movements) THEN Explanation(movements[k]) ELSE "Why"]
      [] reply = "unparsable" -> [k \in 1..Len(movements) |-> NoEventsFound]

\* contexts[idx] || (idx >= 15 ? "Detailed context limited ..." : "No specific ...")
ContextOrFallback(contexts, k) ==
    IF k <= Len(contexts) THEN contexts[k]
    ELSE IF k - 1 >= ResearchCap THEN LimitedNote ELSE NoEventsIdentified

\* the Analyze button of the batched App: no setResult(null), no research counter
BatchedPerformAnalysis ==
    /\ ~loading
    /\ percentage' = ValidatedPercentage(percentage)
    /\ loading' = TRUE
    /\ error' = NULL
    /\ call' = [stage |-> "history", validatedPercentage |-> ValidatedPercentage(percentage)]
    /\ UNCHANGED <<activeResearchCount, result, requests, issued, staleSettled>>

\* the price lookup resolves: segmentation, then the batched context request,
\* or the result at once when there is no movement
BatchedHistoryResolved(raw) ==
    /\ call # NULL
    /\ call.stage = "history"
    /\ LET data == FetchTickerHistory(raw)
           movements == SegmentBatched(data, call.validatedPercentage)
       IN  /\ Len(data) >= 2
           /\ IF Len(movements) > 0
              THEN /\ call' = [stage |-> "contexts",
                               validatedPercentage |-> call.validatedPercentage,
                               data |-> data,
                               movements |-> movements]
                   /\ UNCHANGED <<result, loading>>
              ELSE /\ result' = [ticker |-> Ticker, year |-> Year,
                                 targetPercentage |-> call.validatedPercentage,
                                 data |-> data,
                                 movements |-> <<>>]
                   /\ loading' = FALSE
                   /\ call' = NULL
    /\ UNCHANGED <<percentage, activeResearchCount, error, requests, issued, staleSettled>>

\* fewer than two samples, or the lookup rejects: catch and finally
BatchedHistoryFailed(message) ==
    /\ call # NULL
    /\ call.stage = "history"
    /\ error' = Error(message)
    /\ loading' = FALSE
    /\ call' = NULL
    /\ UNCHANGED <<percentage, activeResearchCount, result, requests, issued, staleSettled>>

\* fetchSwingsContext returns: every movement gets a context and the result is set
BatchedContextsResolved(reply) ==
    /\ call # NULL
    /\ call.stage = "contexts"
    /\ LET contexts == FetchSwingsContext(MovesToResearch(call.movements), reply)
       IN  result' = [ticker |-> Ticker, year |-> Year,
                      targetPercentage |-> call.validatedPercentage,
                      data |-> call.data,
                      movements |-> [k \in 1..Len(call.movements) |->
                          [NewMovement(call.movements[k])
                              EXCEPT !.context = ContextOrFallback(contexts, k)]]]
    /\ loading' = FALSE
    /\ call' = NULL
    /\ UNCHANGED <<percentage, activeResearchCount, error, requests, issued, staleSettled>>

\* the request of fetchSwingsContext rejects: it is awaited outside the try block
BatchedContextsRejected ==
    /\ call # NULL
    /\ call.stage = "contexts"
    /\ error' = Error("request failed")
    /\ loading' = FALSE
    /\ call' = NULL
    /\ UNCHANGED <<percentage, activeResearchCount, result, requests, issued, staleSettled>>

NextBatched ==
    \/ \E p \in PercentInputs : SetPercentage(p)
    \/ BatchedPerformAnalysis
    \/ \E raw \in RawPool : BatchedHistoryResolved(raw)
    \/ \E raw \in RawPool :
          Len(FetchTickerHistory(raw)) < 2 /\ BatchedHistoryFailed("Insufficient data found")
    \/ BatchedHistoryFailed("Failed to fetch accurate historical data")
    \/ \E reply \in BatchReplies : BatchedContextsResolved(reply)
    \/ BatchedContextsRejected

SpecBatched == Init /\ [][NextBatched]_vars

\* ====================================================================== claims

Published == result # NULL

\* the requests of the latest run that have not settled
Outstanding == {r \in requests : r.age = 0}

\* a slot of movements that holds a segmented swing
IsEvent(m) == "startDate" \in DOMAIN m

\* the calendar days between two dates of the year, counted day by day
DayNumber(date) == DaysBeforeMonth(MonthOf(date)) + DayOf(date)
TrueDaySpan(startDate, endDate) == Abs(DayNumber(endDate) - DayNumber(startDate))

FallbackTexts == {ResearchFailed, NoEventData}

\* the number of segmented swings in the published result
EventCount == Cardinality({k \in DOMAIN result.movements : IsEvent(result.movements[k])})

\* ---------------------------------------------------------------------- C1
\* C1: for a date-sorted series of at least two positive prices and a threshold
\* t = targetPercentage / 100 >= 0.02, every emitted event has
\* |percentageChange| / 100 >= t, that is |numerator| >= targetPercentage * denominator.
C1_EveryEventReachesThreshold ==
    (Published /\ ~result.targetPercentage.nan /\ result.targetPercentage.v >= 2) =>
        \A k \in DOMAIN result.movements :
            LET pc == result.movements[k].percentageChange
            IN  pc[2] > 0 /\ Abs(pc[1]) >= result.targetPercentage.v * pc[2]

\* an UP event that meets the threshold exactly, followed by a DOWN event
C1_Witness ==
    /\ Published
    /\ ~result.targetPercentage.nan
    /\ Len(result.movements) = 2
    /\ result.movements[1].type = "UP"
    /\ Abs(result.movements[1].percentageChange[1])
          = result.targetPercentage.v * result.movements[1].percentageChange[2]
    /\ result.movements[2].type = "DOWN"

\* ---------------------------------------------------------------------- C2
\* C2: consecutive events of one segmentation run are contiguous: the end date and
\* end price of event k are the start date and start price of event k + 1.
C2_ConsecutiveEventsContiguous ==
    Published =>
        \A k \in 1..(Len(result.movements) - 1) :
            /\ result.movements[k].endDate = result.movements[k + 1].startDate
            /\ result.movements[k].endPrice = result.movements[k + 1].startPrice

\* two events with a sample below the threshold between the end of the first and
\* the end of the second
C2_Witness ==
    /\ Published
    /\ Len(result.data) = 4
    /\ Len(result.movements) = 2
    /\ result.movements[1].endDate = result.data[2].date
    /\ result.movements[2].endDate = result.data[4].date
    /\ result.data[2].date < result.data[4].date

\* ---------------------------------------------------------------------- C3
\* C3: for every emitted event, daysTaken is the calendar-day span between
\* startDate and endDate, also when samples are missing between them (stated for
\* the result the batched App publishes, whose loop counts i - baseIndex).
C3_DaysTakenIsCalendarSpan ==
    Published =>
        \A k \in DOMAIN result.movements :
            result.movements[k].daysTaken
                = TrueDaySpan(result.movements[k].startDate, result.movements[k].endDate)

\* ---------------------------------------------------------------------- C4
\* C4: a run with n events issues exactly one request for each of the first
\* min(15, n) events in order, none for a later event, none twice, at most 15 in
\* all; a settlement issues no request.
C4_OneRequestPerCappedEvent ==
    /\ Len(issued) <= ResearchCap
    /\ \A k \in 1..Len(issued) : issued[k] = k
    /\ Published => Len(issued) = Min(ResearchCap, EventCount)
    /\ \A r \in Outstanding :
          /\ r.index \in 1..Len(issued)
          /\ Published /\ r.move = [f \in DOMAIN r.move |-> result.movements[r.index][f]]
          /\ \A q \in Outstanding : q.index = r.index => q = r

\* a run of more than 15 events whose 15 requests have all settled
C4_Witness ==
    /\ Published
    /\ Len(result.movements) > ResearchCap
    /\ Len(issued) = ResearchCap
    /\ requests = {}
    /\ result.movements[ResearchCap].context # NoContext

\* ---------------------------------------------------------------------- C5
\* C5: with more than 15 events, every event past the fifteenth ends up with the
\* fixed "limited" note as its context once the run's requests have settled.
C5_BeyondCapGetsLimitedNote ==
    (Published /\ requests = {}) =>
        \A k \in DOMAIN result.movements :
            k > ResearchCap => result.movements[k].context = LimitedNote

\* ---------------------------------------------------------------------- C6
\* C6: once every request of the latest run has settled the outstanding counter is
\* exactly 0, in every completion order and mix of replies; with fair settlements
\* a positive counter leads to 0.
C6_CounterReachesZero ==
    /\ [](Outstanding = {} => activeResearchCount = 0)
    /\ (activeResearchCount > 0 ~> activeResearchCount = 0)

\* all requests of a run of two events settled, one with a text and one with a
\* fallback, and the counter is back at 0
C6_Witness ==
    /\ Published
    /\ Len(issued) = 2
    /\ requests = {}
    /\ ~staleSettled
    /\ result.movements[1].context \in FallbackTexts
    /\ result.movements[2].context \notin FallbackTexts \cup {NoContext}
    /\ activeResearchCount = 0

\* ---------------------------------------------------------------------- C7
\* C7: in a run that no request of an earlier run disturbs, the counter starts at
\* min(15, n) and is at every moment the number of the run's unsettled requests.
C7_CounterIsOutstanding ==
    ~staleSettled =>
        /\ activeResearchCount = Cardinality(Outstanding)
        /\ Published =>
              activeResearchCount + Cardinality({k \in 1..Len(issued) :
                    result.movements[k].context # NoContext})
                 = Min(ResearchCap, Len(result.movements))

\* a run past the cap in mid-flight: a fallback merged, some requests unsettled
C7_Witness ==
    /\ Published
    /\ Len(result.movements) > ResearchCap
    /\ result.movements[1].context \in FallbackTexts
    /\ activeResearchCount > 0
    /\ activeResearchCount < ResearchCap - 1

\* ---------------------------------------------------------------------- C8
\* C8: a failing request for one event prevents no other merge: whenever a request
\* of the latest run settles, with a text or a failure, its own card gets exactly
\* its result and every other card is left as it was (so a text merged before a
\* failure stays, and one settling after a failure is still merged).
C8_FailureIsIsolated ==
    [][\A r \in Outstanding : \A reply \in ProviderReplies :
          ResearchSettled(r, reply) =>
              /\ result'.movements[r.index].context = FetchSingleMovementContext(r.move, reply)
              /\ Len(result'.movements) = Len(result.movements)
              /\ \A j \in DOMAIN result.movements :
                    j # r.index => result'.movements[j] = result.movements[j]]_vars

\* card 1 failed and card 2 carries its own explanation
C8_Witness ==
    /\ Published
    /\ ~staleSettled
    /\ Len(result.movements) >= 2
    /\ result.movements[1].context = ResearchFailed
    /\ result.movements[2].context = Explanation(result.movements[2])

\* ---------------------------------------------------------------------- C9
\* C9: every settlement, with a text or a failure, merges a context into its own
\* card: a card among the first min(15, n) lacks a context exactly while its
\* request is unsettled, so all of them have one once the requests have settled.
C9_SettledCardsHaveContext ==
    Published =>
        \A k \in 1..Min(ResearchCap, Len(result.movements)) :
            (IsEvent(result.movements[k]) /\ \A r \in Outstanding : r.index # k) =>
                result.movements[k].context # NoContext

\* a run past the cap, all settled: a fallback on card 1, texts on the others
C9_Witness ==
    /\ Published
    /\ Len(result.movements) > ResearchCap
    /\ requests = {}
    /\ result.movements[1].context = NoEventData
    /\ \A k \in 2..ResearchCap : result.movements[k].context = Explanation(result.movements[k])

\* ---------------------------------------------------------------------- C10
\* C10: a settlement of a request of an earlier run, arriving after a new analysis
\* was started, leaves the AnalysisResult as it is.
C10_StaleSettlementIgnored ==
    [][\A r \in requests :
          (r.age > 0 /\ requests' = requests \ {r}) => result' = result]_vars

\* ---------------------------------------------------------------------- C11
\* C11: a threshold input below 2 is clamped to 2 before segmentation runs: every
\* published AnalysisResult has a targetPercentage that is a number >= 2.
C11_PublishedThresholdAtLeastTwo ==
    Published => (~result.targetPercentage.nan /\ result.targetPercentage.v >= 2)

\* ---------------------------------------------------------------------- C12
\* C12: when the price lookup returns fewer than 2 samples the run ends in the
\* error state and produces no AnalysisResult: no result is ever published from
\* fewer than 2 samples, and from the failure until the next Analyze the result
\* stays null, loading is off, no request of the run exists and the counter is 0.
C12_InsufficientDataPublishesNothing ==
    /\ Published => Len(result.data) >= 2
    /\ error = Error("Insufficient data found") =>
          /\ result = NULL
          /\ ~loading
          /\ issued = <<>>
          /\ Outstanding = {}
          /\ activeResearchCount = 0

\* the run failed on a short series and a request of the run before it settled
\* afterwards
C12_Witness ==
    /\ error = Error("Insufficient data found")
    /\ staleSettled
    /\ requests = {}

\* ---------------------------------------------------------------------- C13
\* the move from sample b to sample j of the published series reaches the
\* published threshold
MoveReaches(b, j) ==
    /\ ~result.targetPercentage.nan
    /\ Abs(result.data[j].price - result.data[b].price) * 100
          >= result.targetPercentage.v * result.data[b].price

\* the strictly increasing sample positions 1 = c[1] < ... < c[n + 1] an event
\* list of length n may cut the published series at
Cuts(n) ==
    {c \in [1..(n + 1) -> 1..Len(result.data)] :
        c[1] = 1 /\ \A k \in 1..n : c[k] < c[k + 1]}

\* C13: the events never overlap and span from the first sample to the last
\* triggering sample: event 1 starts at the first sample, each event runs from
\* one cut of the series to the next one, no sample after the last event's end
\* reaches the threshold from it (that tail is not emitted), and a series in
\* which no sample reaches the threshold from the first one has no event.
C13_EventsSpanWithoutTail ==
    Published =>
        /\ \E c \in Cuts(Len(result.movements)) :
              /\ \A k \in 1..Len(result.movements) :
                    /\ result.movements[k].startDate = result.data[c[k]].date
                    /\ result.movements[k].startPrice = result.data[c[k]].price
                    /\ result.movements[k].endDate = result.data[c[k + 1]].date
                    /\ result.movements[k].endPrice = result.data[c[k + 1]].price
                    /\ MoveReaches(c[k], c[k + 1])
              /\ \A j \in 1..Len(result.data) :
                    j > c[Len(result.movements) + 1]
                        => ~MoveReaches(c[Len(result.movements) + 1], j)
        /\ (\A j \in 2..Len(result.data) : ~MoveReaches(1, j)) => result.movements = <<>>

\* one event from the first sample to the second, then two later samples that
\* moved on from its end price without reaching the threshold
C13_Witness ==
    /\ Published
    /\ Len(result.data) = 4
    /\ Len(result.movements) = 1
    /\ result.movements[1].startDate = result.data[1].date
    /\ result.movements[1].endDate = result.data[2].date
    /\ result.data[2].date < result.data[3].date
    /\ result.data[3].price # result.data[2].price
    /\ result.data[4].price # result.data[2].price

\* ---------------------------------------------------------------------- C14
\* C14: the initial AnalysisResult is published with loading cleared before any
\* request is issued, and nothing is merged before it: a request of the latest run
\* exists only while a result is published and loading is off; a result replaces
\* null only as the initial result, which holds every event of the segmentation,
\* none with a context, and clears loading; requests are issued in that step alone.
C14_PublishBeforeRequests ==
    /\ []((Outstanding # {} \/ issued # <<>>) => (Published /\ ~loading))
    /\ [][/\ (result = NULL /\ result' # NULL) =>
                /\ ~loading'
                /\ Len(result'.movements)
                      = Len(Segment(result'.data, result'.targetPercentage))
                /\ \A k \in DOMAIN result'.movements :
                      /\ IsEvent(result'.movements[k])
                      /\ result'.movements[k].context = NoContext
                /\ issued' = Indices(Min(ResearchCap, Len(result'.movements)))
          /\ (issued' # issued /\ issued' # <<>>) => (result = NULL /\ result' # NULL)
         ]_vars

\* the initial result of a run of two events is on display with both requests
\* in flight, and a request of the run before it settled while nothing was published
C14_Witness ==
    /\ Published
    /\ ~loading
    /\ staleSettled
    /\ Len(result.movements) = 2
    /\ Cardinality(Outstanding) = 2
    /\ \A k \in 1..2 : result.movements[k].context = NoContext

\* ---------------------------------------------------------------------- C15
\* C15: per event the context goes from pending to a text or a fallback and never
\* back: while a result stays published, a context that is set is neither cleared
\* nor changed by a later merge, so the set of cards with a context only grows.
C15_ContextWrittenOnce ==
    [][(result # NULL /\ result' # NULL) =>
          \A k \in DOMAIN result.movements :
              (IsEvent(result.movements[k]) /\ result.movements[k].context # NoContext) =>
                  /\ k \in DOMAIN result'.movements
                  /\ result'.movements[k].context = result.movements[k].context]_vars

\* ---------------------------------------------------------------------- C16
\* the fields of a movement other than context
EventFields == {"startDate", "endDate", "startPrice", "endPrice", "type",
                "percentageChange", "daysTaken"}

\* movements[j], an empty slot where the array has no element
SlotAt(movements, j) == IF j \in DOMAIN movements THEN movements[j] ELSE Hole

\* m[f], the empty tuple standing for undefined
FieldAt(m, f) == IF f \in DOMAIN m THEN <<m[f]>> ELSE <<>>

\* C16: a merge for index i changes only movements[i].context: whenever a request
\* settles while a result is published, ticker, year, targetPercentage, data,
\* every other slot of movements and the fields of movements[i] other than
\* context are what they were, and movements[i] has a context.
C16_MergeTouchesOnlyItsContext ==
    [][\A r \in requests :
          (requests' = requests \ {r} /\ result # NULL) =>
              /\ result' # NULL
              /\ result'.ticker = result.ticker
              /\ result'.year = result.year
              /\ result'.targetPercentage = result.targetPercentage
              /\ result'.data = result.data
              /\ r.index \in DOMAIN result'.movements
              /\ result'.movements[r.index].context # NoContext
              /\ \A j \in DOMAIN result.movements \cup DOMAIN result'.movements :
                    IF j = r.index
                    THEN \A f \in EventFields :
                            FieldAt(SlotAt(result'.movements, j), f)
                                = FieldAt(SlotAt(result.movements, j), f)
                    ELSE SlotAt(result'.movements, j) = SlotAt(result.movements, j)]_vars

\* card 2 carries its explanation while card 1 still waits for its request
C16_Witness ==
    /\ Published
    /\ Len(result.movements) = 2
    /\ \A k \in 1..2 : IsEvent(result.movements[k])
    /\ result.movements[1].context = NoContext
    /\ result.movements[2].context = Explanation(result.movements[2])
    /\ Cardinality(Outstanding) = 1

\* ---------------------------------------------------------------------- C17
\* C17: after the initial result is published the number of movements and their
\* order never change: while a result stays published, every step keeps the
\* length of movements and, slot by slot, the event that stands there.
C17_MovementsKeepNumberAndOrder ==
    [][(result # NULL /\ result' # NULL) =>
          /\ Len(result'.movements) = Len(result.movements)
          /\ \A k \in DOMAIN result.movements : \A f \in EventFields :
                FieldAt(result'.movements[k], f) = FieldAt(result.movements[k], f)]_vars

\* ---------------------------------------------------------------------- C18
\* C18: in the per-card App an enrichment error never escapes: whenever a request
\* settles, rejected ones included, the error state and loading are what they
\* were and a published result stays published with its ticker, year,
\* targetPercentage and data; a rejected request leaves the whole result as it is.
C18_EnrichmentErrorsAbsorbed ==
    [][\A r \in requests :
          (requests' = requests \ {r}) =>
              /\ error' = error
              /\ loading' = loading
              /\ (result = NULL) = (result' = NULL)
              /\ result # NULL =>
                    /\ result'.ticker = result.ticker
                    /\ result'.year = result.year
                    /\ result'.targetPercentage = result.targetPercentage
                    /\ result'.data = result.data
              /\ ResearchRejected(r) => result' = result]_vars

\* every request of a run of two events has settled and the one for card 1 was
\* rejected: its card has no context, card 2 has its text, nothing else changed
C18_Witness ==
    /\ Published
    /\ ~loading
    /\ error = NULL
    /\ ~staleSettled
    /\ requests = {}
    /\ activeResearchCount = 0
    /\ Len(result.movements) = 2
    /\ result.movements[1].context = NoContext
    /\ result.movements[2].context = Explanation(result.movements[2])

\* ---------------------------------------------------------------------- C19
\* C19: in the batched App every failure of the explanation provider ends in
\* fallback strings: whenever the batched context request settles, the run
\* publishes its result with a context on every event and the error state is not set.
C19_BatchedFailureFallsBack ==
    [][(call # NULL /\ call.stage = "contexts" /\ call' = NULL) =>
          /\ error' = NULL
          /\ result' # NULL
          /\ result'.data = call.data
          /\ Len(result'.movements) = Len(call.movements)
          /\ \A k \in DOMAIN result'.movements :
                result'.movements[k].context # NoContext]_vars

\* ---------------------------------------------------------------------- C20
\* how often the sample p occurs in the sequence s
Occurrences(s, p) == Cardinality({k \in DOMAIN s : s[k] = p})

\* the sample has a date and a price
HasBothFields(p) == "date" \in DOMAIN p /\ "price" \in DOMAIN p

\* C20: fetchTickerHistory returns the provider's samples sorted ascending by
\* date, with exactly the samples that lack a date or a price removed: every
\* sample that has both fields is returned as often as the reply holds it, and
\* no other sample is returned, whatever the order of the reply.
C20_HistorySortedAndComplete ==
    (call # NULL /\ call.stage = "returned") =>
        /\ \A k \in 1..(Len(call.data) - 1) : call.data[k].date <= call.data[k + 1].date
        /\ \A p \in RawSamples :
              Occurrences(call.data, p)
                 = IF HasBothFields(p) THEN Occurrences(call.raw, p) ELSE 0

\* ---------------------------------------------------------------------- C21
\* the series [(01-01, 100), (01-10, 103), (02-01, 80)]
ExampleSeries == <<Point(101, 100), Point(110, 103), Point(201, 80)>>

\* the fraction num / den, as a percentage, rounds to tenths / 10 (tenths < 0)
RoundsToTenths(pc, tenths) ==
    /\ pc[2] > 0
    /\ (tenths * 10 - 5) * pc[2] < 100 * pc[1]
    /\ 100 * pc[1] < (tenths * 10 + 5) * pc[2]

\* C21: for the series [(01-01,100),(01-10,103),(02-01,80)] and threshold 2% the
\* segmentation yields exactly two events: UP 01-01 to 01-10 with +3% and
\* daysTaken 9, then DOWN 01-10 to 02-01 with about -22.3% and daysTaken 22.
C21_WorkedExample ==
    (Published /\ result.data = ExampleSeries /\ result.targetPercentage = Num(2)) =>
        /\ Len(result.movements) = 2
        /\ result.movements[1].type = "UP"
        /\ result.movements[1].startDate = 101
        /\ result.movements[1].endDate = 110
        /\ result.movements[1].percentageChange[1] = 3 * result.movements[1].percentageChange[2]
        /\ result.movements[1].daysTaken = 9
        /\ result.movements[2].type = "DOWN"
        /\ result.movements[2].startDate = 110
        /\ result.movements[2].endDate = 201
        /\ RoundsToTenths(result.movements[2].percentageChange, -223)
        /\ result.movements[2].daysTaken = 22

\* the example series was analysed at threshold 2 (the input 1, clamped)
C21_Witness ==
    /\ Published
    /\ result.data = ExampleSeries
    /\ result.targetPercentage = Num(2)
    /\ percentage = Num(2)

\* ---------------------------------------------------------------------- C22
\* C22: each event ends at the first sample after its base that differs from the
\* base price by at least the threshold, an exact-threshold move included: with
\* the events cut at positions c, every cut reaches the threshold from the cut
\* before it, no sample strictly between two cuts does, and the base moves only
\* at a cut (event k + 1 starts where event k ended, event 1 at the first sample).
C22_EventEndsAtFirstReach ==
    Published =>
        \E c \in Cuts(Len(result.movements)) :
            \A k \in 1..Len(result.movements) :
                /\ result.movements[k].startDate = result.data[c[k]].date
                /\ result.movements[k].startPrice = result.data[c[k]].price
                /\ result.movements[k].endDate = result.data[c[k + 1]].date
                /\ result.movements[k].endPrice = result.data[c[k + 1]].price
                /\ MoveReaches(c[k], c[k + 1])
                /\ \A j \in 1..Len(result.data) :
                      (c[k] < j /\ j < c[k + 1]) => ~MoveReaches(c[k], j)

\* an event that ends on a move of exactly the threshold after a sample that
\* stayed below it, although a later sample moves further
C22_Witness ==
    /\ Published
    /\ result.targetPercentage = Num(3)
    /\ Len(result.data) = 4
    /\ Len(result.movements) >= 1
    /\ result.data[1].price = 100
    /\ result.data[2].price = 100
    /\ result.data[3].price = 103
    /\ result.data[4].price = 103
    /\ result.movements[1].endDate = result.data[3].date
    /\ result.data[2].date < result.data[3].date
    /\ result.data[3].date < result.data[4].date

\* ---------------------------------------------------------------------- C23
\* C23: for every emitted event, startPrice and endPrice are the prices of two
\* samples of the series, the base before the triggering one; percentageChange
\* is (endPrice - startPrice) / startPrice * 100; type is UP exactly when
\* endPrice > startPrice and DOWN exactly when endPrice < startPrice, and no
\* event has endPrice = startPrice.
C23_PricesChangeAndType ==
    Published =>
        \A k \in DOMAIN result.movements :
            LET m == result.movements[k]
            IN  /\ \E b \in DOMAIN result.data, i \in DOMAIN result.data :
                      /\ b < i
                      /\ result.data[b] = Point(m.startDate, m.startPrice)
                      /\ result.data[i] = Point(m.endDate, m.endPrice)
                /\ m.percentageChange[2] > 0
                /\ m.percentageChange[1] * m.startPrice
                      = (m.endPrice - m.startPrice) * 100 * m.percentageChange[2]
                /\ m.type \in {"UP", "DOWN"}
                /\ (m.type = "UP") = (m.endPrice > m.startPrice)
                /\ (m.type = "DOWN") = (m.endPrice < m.startPrice)
                /\ m.endPrice # m.startPrice

\* a DOWN event from 100 to 80 followed by an UP event from 80 to 103
C23_Witness ==
    /\ Published
    /\ Len(result.movements) = 2
    /\ result.movements[1].type = "DOWN"
    /\ result.movements[1].startPrice = 100
    /\ result.movements[1].endPrice = 80
    /\ result.movements[2].type = "UP"
    /\ result.movements[2].endPrice = 103

\* ---------------------------------------------------------------------- C24
\* C24: across any sequence of runs, overlapping ones included, the outstanding
\* counter is never negative, never above 15, and is 0 only when no request of
\* the latest run is unsettled.
C24_CounterBoundsAcrossRuns ==
    /\ activeResearchCount >= 0
    /\ activeResearchCount <= ResearchCap
    /\ activeResearchCount = 0 => Outstanding = {}

\* ---------------------------------------------------------------------- C25
\* C25: in the per-card App result and error are never both non-null: Analyze
\* clears both, the run then sets exactly one of them, and a settlement arriving
\* while the result is null leaves it null.
C25_ResultAndErrorExclusive ==
    /\ [](result = NULL \/ error = NULL)
    /\ [](loading => (result = NULL /\ error = NULL))
    /\ [][/\ (loading /\ ~loading') => ((result' = NULL) # (error' = NULL))
          /\ \A r \in requests :
                (requests' = requests \ {r} /\ result = NULL) => result' = NULL]_vars

\* a run failed after the run before it had published, and a request of that
\* earlier run settled afterwards: the error is set and the result is still null
C25_Witness ==
    /\ error # NULL
    /\ result = NULL
    /\ ~loading
    /\ staleSettled

\* ---------------------------------------------------------------------- C26
\* C26: every run whose price lookup settles eventually leaves loading false with
\* a published result or an error set, and loading is cleared without waiting
\* for a research request: the step that clears it settles none, and no fairness
\* of the research requests is assumed.
C26_LoadingEventuallyCleared ==
    /\ loading ~> (~loading /\ (result # NULL \/ error # NULL))
    /\ [][(loading /\ ~loading') => \A r \in requests : r \in requests']_vars

\* loading is off and the result is on display while both requests of the run
\* and one of the run before it are still unsettled
C26_Witness ==
    /\ ~loading
    /\ Published
    /\ error = NULL
    /\ Cardinality(Outstanding) = 2
    /\ Cardinality(requests \ Outstanding) = 1
    /\ activeResearchCount > 0

====
